---- MODULE Spec2Model ----
(***************************************************************************)
(* go-matrix: the authenticated-request pipeline of the Matrix client.     *)
(*                                                                         *)
(* One Client is constructed by NewClientWithConfig (process Ctor); once   *)
(* construction has returned a client, the callers issue logical calls     *)
(* (sendMessage / UploadFile) that run doRequest, getToken and, after a    *)
(* 401, authenticate.  The server and the pluggable SessionStorage are the *)
(* environment: every answer they can give is a nondeterministic choice.   *)
(*                                                                         *)
(* Tokens, bodies and device identifiers are drawn from small sets of       *)
(* strings; "" is the empty token.                                         *)
(***************************************************************************)
EXTENDS Integers, Sequences, FiniteSets, TLC

\* ------------------------------------------------------------------ bounds
NumCallers == 2          \* callers of the client's operations, one logical call each

\* --------------------------------------------------------- program constants
StatusUnauthorized == 401     \* http.StatusUnauthorized
ErrorStatus == 400            \* the threshold of "resp.StatusCode >= 400"

Ctor == 0
Callers == 1..NumCallers
Procs == {Ctor} \cup Callers
None == -1
NoToken == "none"

\* access tokens: the empty string and the tokens the server issues
EmptyToken == ""
Tokens == {EmptyToken, "t1", "t2"}
Statuses == {200, ErrorStatus, StatusUnauthorized}
OKStatuses == {s \in Statuses : s < ErrorStatus}
Bodies == {"b1", "b2"}

\* Client.httpClient after lines 51-59: the Config's HttpClient, or the client
\* with the one-minute timeout that NewClientWithConfig makes when it is nil
HttpClients == {"Config.HttpClient", "timeout"}

\* http.DefaultClient, the client of lines 174 and 214
DefaultClient == "http.DefaultClient"

\* line 174: the client that sends the login request, given c.httpClient
LoginTransport(hc) == DefaultClient

\* line 214: the client that sends the request of doRequest, given c.httpClient
RequestTransport(hc) == DefaultClient

\* line 117: uuid.NewString(), the n-th identifier generated in the call of
\* caller c; every invocation returns an identifier returned by no other
NewString(c, n) == <<c, n>>

\* lines 117-118: the method, path and payload sendMessage passes to doRequest
\* for the message of caller c, with the event identifier id in the path
Request(c, id) == [method |-> "PUT", path |-> id, payload |-> c]
NoPath == [method |-> "", path |-> <<>>, payload |-> 0]

\* Session (session.go): the zero value has two empty strings.
Session(tk) == [AccessToken |-> tk, DeviceID |-> IF tk = EmptyToken THEN "" ELSE "dev"]
ZeroSession == Session(EmptyToken)

\* errors: nil, or the failing step with the status and body it carries
Nil == [kind |-> "nil", status |-> 0, body |-> ""]
Err(k) == [kind |-> k, status |-> 0, body |-> ""]
StatusErr(k, s, b) == [kind |-> k, status |-> s, body |-> b]

\* what http.DefaultClient.Do can return for a request of doRequest: an error,
\* or a response; two 401 responses can differ in their bodies
HttpOutcomes ==
    {[transport |-> TRUE, status |-> 0, body |-> ""]}
    \cup {[transport |-> FALSE, status |-> s, body |-> "b1"] : s \in Statuses}
    \cup {[transport |-> FALSE, status |-> StatusUnauthorized, body |-> b] : b \in Bodies}

\* what http.DefaultClient.Do can return for the login request, with what the
\* JSON decoder makes of the body: an error body decodes to the zero Session
LoginOutcomes ==
    {[transport |-> TRUE, status |-> 0, body |-> "", decodes |-> FALSE, sess |-> ZeroSession]}
    \cup {[transport |-> FALSE, status |-> ErrorStatus, body |-> "b1", decodes |-> TRUE, sess |-> ZeroSession],
          [transport |-> FALSE, status |-> StatusUnauthorized, body |-> "b2", decodes |-> TRUE, sess |-> ZeroSession]}
    \cup {[transport |-> FALSE, status |-> s, body |-> "b1", decodes |-> FALSE, sess |-> ZeroSession] :
            s \in OKStatuses}
    \cup {[transport |-> FALSE, status |-> s, body |-> "b1", decodes |-> TRUE, sess |-> Session(t)] :
            s \in OKStatuses, t \in Tokens}

\* ------------------------------------------------------------ call records
\* call[c] records what caller c has done for its logical call so far
NoResp == [transport |-> FALSE, status |-> 0, body |-> ""]
NoLogin == [transport |-> FALSE, status |-> 0, body |-> "", decodes |-> FALSE,
            sess |-> ZeroSession]
NewCall == [reqs |-> 0,            \* request attempts sent by doRequest
            st1 |-> 0,             \* the status the first attempt was answered with
            last |-> NoResp,       \* the outcome of the last attempt
            auths |-> 0,           \* invocations of authenticate
            paths |-> <<>>,        \* the method, path and payload of each attempt
            via |-> {}]            \* the HTTP clients that sent the attempts

\* ctor records what NewClientWithConfig has done
NewCtor == [got |-> "none",        \* SessionStorage.Get: "none", "failed", or the token
            logins |-> 0,          \* login requests sent
            installed |-> NoToken, \* the token its login installed
            via |-> {}]            \* the HTTP clients that sent its login requests

\* the record of a construction whose client is in use: it is kept until the
\* first call on the client starts
PastCtor == [got |-> "past", logins |-> 0, installed |-> NoToken, via |-> {}]

\* herd records the invocations of authenticate that are in progress together:
\* how many there are, the prevTokens they passed, the token the first of them
\* found under the lock, the login requests they sent, how many of these left
\* the token as it was, the token the last successful one installed, and the
\* HTTP clients that sent the login requests
NewHerd == [size |-> 0, prevs |-> {}, first |-> NoToken, logins |-> 0,
            kept |-> 0, produced |-> NoToken, via |-> {}]

VARIABLES
    urlOK,        \* Credentials.Server yields a well-formed request URL
    storeCfg,     \* Config.SessionStorage /= nil
    httpClient,   \* Client.httpClient
    store,        \* the Session the SessionStorage holds
    token,        \* Client.token
    writer,       \* Client.mux: the holder of the exclusive lock, or None
    readers,      \* Client.mux: the holders of the read lock
    pc,           \* each process's position
    tok,          \* doRequest's local token = authenticate's prevToken
    tryAuth,      \* doRequest's tryAuth parameter
    path,         \* doRequest's method, path and payload parameters
    sess,         \* authenticate's decoded Session
    result,       \* the error (or Nil) authenticate or the finished call returns
    loginResp,    \* the outcome of the login request, until authenticate handles it
    call,         \* the record of each caller's call
    ctor,         \* the record of the construction
    herd          \* the record of the authenticate invocations in progress

vars == <<urlOK, storeCfg, httpClient, store, token, writer, readers, pc, tok,
          tryAuth, path, sess, result, loginResp, call, ctor, herd>>

\* ------------------------------------------------------------------ helpers
AuthPcs == {"au_lock", "au_wait", "au_resp", "au_set", "au_ret"}
InAuth == {p \in Procs : pc[p] \in AuthPcs}

\* the herd after p has invoked authenticate(prev)
JoinHerd(prev) == [herd EXCEPT !.size = @ + 1, !.prevs = @ \cup {prev}]

\* the state NewClientWithConfig starts from, for a Config whose HttpClient
\* makes c.httpClient one of hcs
InitClient(hcs) ==
    /\ urlOK \in BOOLEAN
    /\ storeCfg \in BOOLEAN
    /\ httpClient \in hcs
    /\ store \in {Session(t) : t \in Tokens}
    /\ (~storeCfg => store = ZeroSession)
    /\ token = EmptyToken
    /\ writer = None
    /\ readers = {}
    /\ pc = [p \in Procs |-> IF p = Ctor THEN "nc_start" ELSE "idle"]
    /\ tok = [p \in Procs |-> EmptyToken]
    /\ tryAuth = [p \in Procs |-> FALSE]
    /\ path = [c \in Callers |-> NoPath]
    /\ sess = [p \in Procs |-> ZeroSession]
    /\ result = [p \in Procs |-> Nil]
    /\ loginResp = NoLogin
    /\ call = [c \in Callers |-> NewCall]
    /\ ctor = NewCtor
    /\ herd = NewHerd

\* a Config without HttpClient, as NewClient passes it (line 83)
Init == InitClient({"timeout"})

\* a Config with or without HttpClient
InitTransport == InitClient(HttpClients)

\* ------------------------------------------------------- NewClientWithConfig
\* the stored token is not copied into the client
LoadedDropped(s) == EmptyToken

\* lines 61-70: the token NewClientWithConfig holds after a successful Get
Loaded(s) == IF s.AccessToken /= EmptyToken THEN s.AccessToken ELSE EmptyToken

\* the test of line 72 inverted
NeedsLoginInverted(tk) == tk /= EmptyToken

\* line 72: the eager login is needed
NeedsLogin(tk) == tk = EmptyToken

\* the error of c.sessionStorage.Get ignored: construction goes on with no token
NewClientWithConfigIgnoresGetError ==
    /\ pc[Ctor] = "nc_start"
    /\ \E getOK \in BOOLEAN :
         /\ (~storeCfg => getOK)
         /\ LET loaded == IF storeCfg /\ getOK THEN Loaded(store) ELSE token
            IN /\ token' = loaded
               /\ ctor' = [ctor EXCEPT !.got = IF ~storeCfg THEN "none"
                                               ELSE IF getOK THEN store.AccessToken
                                               ELSE "failed"]
               /\ IF NeedsLogin(loaded)
                  THEN /\ pc' = [pc EXCEPT ![Ctor] = "au_lock"]
                       /\ tok' = [tok EXCEPT ![Ctor] = loaded]
                       /\ herd' = JoinHerd(loaded)
                  ELSE /\ pc' = [pc EXCEPT ![Ctor] = "nc_ok"]
                       /\ UNCHANGED <<tok, herd>>
    /\ UNCHANGED <<urlOK, storeCfg, httpClient, path, store, writer, readers, tryAuth, sess,
                   result, loginResp, call>>

\* lines 61-77: load the stored session, then log in when no token was loaded
NewClientWithConfig ==
    /\ pc[Ctor] = "nc_start"
    /\ \E getOK \in BOOLEAN :
         /\ (~storeCfg => getOK)
         /\ IF storeCfg /\ ~getOK
            THEN /\ pc' = [pc EXCEPT ![Ctor] = "nc_fail"]
                 /\ result' = [result EXCEPT ![Ctor] = Err("storage_get")]
                 /\ ctor' = [ctor EXCEPT !.got = "failed"]
                 /\ UNCHANGED <<token, tok, herd>>
            ELSE LET loaded == IF storeCfg THEN Loaded(store) ELSE token
                 IN /\ token' = loaded
                    /\ ctor' = [ctor EXCEPT !.got = IF storeCfg THEN store.AccessToken
                                                    ELSE "none"]
                    /\ IF NeedsLogin(loaded)
                       THEN /\ pc' = [pc EXCEPT ![Ctor] = "au_lock"]
                            /\ tok' = [tok EXCEPT ![Ctor] = loaded]
                            /\ herd' = JoinHerd(loaded)
                       ELSE /\ pc' = [pc EXCEPT ![Ctor] = "nc_ok"]
                            /\ UNCHANGED <<tok, herd>>
                    /\ UNCHANGED result
    /\ UNCHANGED <<urlOK, storeCfg, httpClient, path, store, writer, readers, tryAuth, sess,
                   loginResp, call>>

\* -------------------------------------------------------------- authenticate
\* a lock that excludes nobody
CanLockAlways == TRUE

\* a lock that excludes the readers only, not another writer
CanLockReadersOnly == readers = {}

\* line 148: c.mux.Lock() waits until no reader and no writer holds the lock
CanLock == writer = None /\ readers = {}

\* the compare-and-skip check left out: every invocation logs in
SkipsNever(p) == FALSE

\* lines 151-153: the compare-and-skip check
Skips(p) == token /= tok[p]

\* lines 148-174: take the exclusive lock, compare-and-skip, then build and
\* send the login request; the lock stays held while the request is out
authenticateLogin(p) ==
    /\ pc[p] = "au_lock"
    /\ CanLock
    /\ writer' = p
    /\ LET h == IF herd.first = NoToken THEN [herd EXCEPT !.first = token] ELSE herd
       IN IF Skips(p)
          THEN /\ pc' = [pc EXCEPT ![p] = "au_ret"]
               /\ result' = [result EXCEPT ![p] = Nil]
               /\ herd' = h
               /\ UNCHANGED ctor
          ELSE IF ~urlOK
          THEN /\ pc' = [pc EXCEPT ![p] = "au_ret"]
               /\ result' = [result EXCEPT ![p] = Err("auth_create")]
               /\ herd' = h
               /\ UNCHANGED ctor
          ELSE /\ pc' = [pc EXCEPT ![p] = "au_wait"]
               /\ herd' = [h EXCEPT !.logins = @ + 1,
                                    !.via = @ \cup {LoginTransport(httpClient)}]
               /\ ctor' = IF p = Ctor
                          THEN [ctor EXCEPT !.logins = @ + 1,
                                            !.via = @ \cup {LoginTransport(httpClient)}]
                          ELSE ctor
               /\ UNCHANGED result
    /\ UNCHANGED <<urlOK, storeCfg, httpClient, path, store, token, readers, tok, tryAuth, sess,
                   loginResp, call>>

\* line 174: http.DefaultClient.Do returns the outcome of the login request
loginDo(p) ==
    /\ pc[p] = "au_wait"
    /\ \E o \in LoginOutcomes : loginResp' = o
    /\ pc' = [pc EXCEPT ![p] = "au_resp"]
    /\ UNCHANGED <<urlOK, storeCfg, httpClient, path, store, token, writer, readers, tok, tryAuth,
                   sess, result, call, ctor, herd>>

\* the error of the JSON decoder ignored
LoginClassIgnoresDecode(o) ==
    IF o.transport THEN "transport"
    ELSE IF o.status >= ErrorStatus THEN "status"
    ELSE "ok"

\* the status check with > in place of >=
LoginClassOffByOne(o) ==
    IF o.transport THEN "transport"
    ELSE IF o.status > ErrorStatus THEN "status"
    ELSE IF ~o.decodes THEN "decode"
    ELSE "ok"

\* lines 175-189: what authenticate makes of the outcome of the login request
LoginClass(o) ==
    IF o.transport THEN "transport"
    ELSE IF o.status >= ErrorStatus THEN "status"
    ELSE IF ~o.decodes THEN "decode"
    ELSE "ok"

\* lines 175-192: authenticate handles the outcome; a session that decodes
\* replaces the token
authenticateResp(p) ==
    /\ pc[p] = "au_resp"
    /\ LET o == loginResp
           cls == LoginClass(o)
       IN IF cls = "ok"
          THEN /\ token' = o.sess.AccessToken
               /\ herd' = [herd EXCEPT !.produced = o.sess.AccessToken,
                                       !.kept = IF o.sess.AccessToken = token
                                                THEN @ + 1 ELSE @]
               /\ ctor' = IF p = Ctor THEN [ctor EXCEPT !.installed = o.sess.AccessToken]
                          ELSE ctor
               /\ IF storeCfg
                  THEN /\ pc' = [pc EXCEPT ![p] = "au_set"]
                       /\ sess' = [sess EXCEPT ![p] = o.sess]
                       /\ UNCHANGED result
                  ELSE /\ pc' = [pc EXCEPT ![p] = "au_ret"]
                       /\ result' = [result EXCEPT ![p] = Nil]
                       /\ UNCHANGED sess
          ELSE /\ pc' = [pc EXCEPT ![p] = "au_ret"]
               /\ result' = [result EXCEPT ![p] =
                      CASE cls = "transport" -> Err("auth_transport")
                        [] cls = "status" -> StatusErr("auth_status", o.status, o.body)
                        [] OTHER -> Err("auth_decode")]
               /\ herd' = [herd EXCEPT !.kept = @ + 1]
               /\ UNCHANGED <<token, sess, ctor>>
    /\ loginResp' = NoLogin
    /\ UNCHANGED <<urlOK, storeCfg, httpClient, path, store, writer, readers, tok, tryAuth, call>>

\* the error of c.sessionStorage.Set dropped
authenticateSetSwallowsError(p) ==
    /\ pc[p] = "au_set"
    /\ \E setOK \in BOOLEAN :
         /\ store' = IF setOK THEN sess[p] ELSE store
         /\ result' = [result EXCEPT ![p] = Nil]
    /\ sess' = [sess EXCEPT ![p] = ZeroSession]
    /\ pc' = [pc EXCEPT ![p] = "au_ret"]
    /\ UNCHANGED <<urlOK, storeCfg, httpClient, path, token, writer, readers, tok, tryAuth,
                   loginResp, call, ctor, herd>>

\* lines 192-194: c.sessionStorage.Set(sess), which may fail
authenticateSet(p) ==
    /\ pc[p] = "au_set"
    /\ \E setOK \in BOOLEAN :
         /\ store' = IF setOK THEN sess[p] ELSE store
         /\ result' = [result EXCEPT ![p] = IF setOK THEN Nil ELSE Err("storage_set")]
    /\ sess' = [sess EXCEPT ![p] = ZeroSession]
    /\ pc' = [pc EXCEPT ![p] = "au_ret"]
    /\ UNCHANGED <<urlOK, storeCfg, httpClient, path, token, writer, readers, tok, tryAuth,
                   loginResp, call, ctor, herd>>

\* a new identifier generated for the retry
RetryPathRegenerated(c) == Request(c, NewString(c, 2))

\* line 235: the method, path and payload doRequest passes to itself for the retry
RetryPath(c) == path[c]

\* the retry made with tryAuth as it was
authenticateReturnKeepsTryAuth(p) ==
    /\ pc[p] = "au_ret"
    /\ writer' = None
    /\ herd' = IF InAuth = {p} THEN NewHerd ELSE herd
    /\ IF p = Ctor
       THEN pc' = [pc EXCEPT ![p] = IF result[p] = Nil THEN "nc_ok" ELSE "nc_fail"]
       ELSE pc' = [pc EXCEPT ![p] = IF result[p] /= Nil THEN "done" ELSE "gt_rlock"]
    /\ tok' = IF p /= Ctor /\ result[p] /= Nil THEN [tok EXCEPT ![p] = EmptyToken] ELSE tok
    /\ path' = IF p /= Ctor /\ result[p] = Nil THEN [path EXCEPT ![p] = RetryPath(p)] ELSE path
    /\ UNCHANGED <<urlOK, storeCfg, httpClient, store, token, readers, tryAuth, sess,
                   result, loginResp, call, ctor>>

\* line 149: the deferred c.mux.Unlock(), and the return of authenticate to
\* NewClientWithConfig (lines 73-79) or to doRequest (lines 230-235), which on
\* success calls itself with tryAuth = false and builds the same request again
authenticateReturn(p) ==
    /\ pc[p] = "au_ret"
    /\ writer' = None
    /\ herd' = IF InAuth = {p} THEN NewHerd ELSE herd
    /\ IF p = Ctor
       THEN /\ pc' = [pc EXCEPT ![p] = IF result[p] = Nil THEN "nc_ok" ELSE "nc_fail"]
            /\ UNCHANGED <<tryAuth, tok, path>>
       ELSE IF result[p] /= Nil
       THEN /\ pc' = [pc EXCEPT ![p] = "done"]
            /\ tok' = [tok EXCEPT ![p] = EmptyToken]
            /\ UNCHANGED <<tryAuth, path>>
       ELSE /\ pc' = [pc EXCEPT ![p] = "gt_rlock"]
            /\ tryAuth' = [tryAuth EXCEPT ![p] = FALSE]
            /\ path' = [path EXCEPT ![p] = RetryPath(p)]
            /\ UNCHANGED tok
    /\ UNCHANGED <<urlOK, storeCfg, httpClient, store, token, readers, sess, result,
                   loginResp, call, ctor>>

\* ------------------------------------------------- sendMessage / UploadFile
\* lines 111-120, 128-132: a logical call builds its path, with a new event
\* identifier, and enters doRequest with tryAuth = true;
\* lines 202-205: doRequest fails at once when the request cannot be built
sendMessage(c) ==
    /\ pc[Ctor] = "nc_ok"
    /\ pc[c] = "idle"
    /\ path' = [path EXCEPT ![c] = Request(c, NewString(c, 1))]
    /\ tryAuth' = [tryAuth EXCEPT ![c] = TRUE]
    /\ IF urlOK
       THEN /\ pc' = [pc EXCEPT ![c] = "gt_rlock"]
            /\ UNCHANGED result
       ELSE /\ pc' = [pc EXCEPT ![c] = "done"]
            /\ result' = [result EXCEPT ![c] = Err("create")]
    /\ ctor' = PastCtor
    /\ UNCHANGED <<urlOK, storeCfg, httpClient, store, token, writer, readers, tok, sess,
                   loginResp, call, herd>>

\* ------------------------------------------------------------------ getToken
\* a read lock that does not wait for the writer
CanRLockAlways == TRUE

\* line 239: c.mux.RLock() waits while a writer holds the lock
CanRLock == writer = None

getTokenRLock(c) ==
    /\ pc[c] = "gt_rlock"
    /\ CanRLock
    /\ readers' = readers \cup {c}
    /\ pc' = [pc EXCEPT ![c] = "gt_read"]
    /\ UNCHANGED <<urlOK, storeCfg, httpClient, path, store, token, writer, tok, tryAuth, sess,
                   result, loginResp, call, ctor, herd>>

\* the token of the previous attempt is sent again
TokenReadStale(c) == IF call[c].reqs = 0 THEN token ELSE tok[c]

\* line 241: the token getToken returns
TokenRead(c) == token

\* the deferred RUnlock left out
RUnlockMissing(c) == readers

\* line 240: the deferred c.mux.RUnlock()
RUnlock(c) == readers \ {c}

\* lines 240-241, 207: getToken returns c.token with the deferred RUnlock, and
\* doRequest keeps it in its local token
getTokenReturn(c) ==
    /\ pc[c] = "gt_read"
    /\ tok' = [tok EXCEPT ![c] = TokenRead(c)]
    /\ readers' = RUnlock(c)
    /\ pc' = [pc EXCEPT ![c] = "dr_send"]
    /\ UNCHANGED <<urlOK, storeCfg, httpClient, path, store, token, writer, tryAuth, sess,
                   result, loginResp, call, ctor, herd>>

\* ----------------------------------------------------------------- doRequest
\* lines 208-214: doRequest attaches the token as the Bearer token and sends
\* the request
doRequestDo(c) ==
    /\ pc[c] = "dr_send"
    /\ call' = [call EXCEPT ![c].reqs = @ + 1,
                            ![c].paths = Append(@, path[c]),
                            ![c].via = @ \cup {RequestTransport(httpClient)}]
    /\ pc' = [pc EXCEPT ![c] = "dr_wait"]
    /\ UNCHANGED <<urlOK, storeCfg, httpClient, path, store, token, writer, readers, tok,
                   tryAuth, sess, result, loginResp, ctor, herd>>

\* the test of lines 225-228 placed before the test of lines 219-221
ResponseClassSwapped(try, o) ==
    IF o.transport THEN "transport"
    ELSE IF ~try \/ o.status /= StatusUnauthorized THEN "fail"
    ELSE IF o.status < ErrorStatus THEN "ok"
    ELSE "reauth"

\* tryAuth ignored: every 401 leads to authenticate and a retry
ResponseClassAlwaysRetry(try, o) ==
    IF o.transport THEN "transport"
    ELSE IF o.status < ErrorStatus THEN "ok"
    ELSE IF o.status /= StatusUnauthorized THEN "fail"
    ELSE "reauth"

\* the error of http.DefaultClient.Do handled like a 401
ResponseClassRetryTransport(try, o) ==
    IF o.transport THEN (IF try THEN "reauth" ELSE "transport")
    ELSE IF o.status < ErrorStatus THEN "ok"
    ELSE IF ~try \/ o.status /= StatusUnauthorized THEN "fail"
    ELSE "reauth"

\* the test for 401 left out: every failure status leads to authenticate
ResponseClassAnyStatus(try, o) ==
    IF o.transport THEN "transport"
    ELSE IF o.status < ErrorStatus THEN "ok"
    ELSE IF ~try THEN "fail"
    ELSE "reauth"

\* lines 215-228: what doRequest makes of the outcome of the HTTP call
ResponseClass(try, o) ==
    IF o.transport THEN "transport"
    ELSE IF o.status < ErrorStatus THEN "ok"
    ELSE IF ~try \/ o.status /= StatusUnauthorized THEN "fail"
    ELSE "reauth"

\* lines 214-230: the outcome of the HTTP call; after a 401 with tryAuth the
\* response is closed unread and authenticate(token) is invoked; when doRequest
\* returns, its locals are gone
doRequestResp(c) ==
    /\ pc[c] = "dr_wait"
    /\ \E o \in HttpOutcomes :
         LET cls == ResponseClass(tryAuth[c], o)
             st1 == IF call[c].reqs = 1 THEN o.status ELSE call[c].st1
         IN IF cls = "reauth"
            THEN /\ pc' = [pc EXCEPT ![c] = "au_lock"]
                 /\ call' = [call EXCEPT ![c].last = [o EXCEPT !.body = ""],
                                         ![c].st1 = st1,
                                         ![c].auths = @ + 1]
                 /\ herd' = JoinHerd(tok[c])
                 /\ UNCHANGED <<result, tok>>
            ELSE /\ pc' = [pc EXCEPT ![c] = "done"]
                 /\ call' = [call EXCEPT ![c].last = o, ![c].st1 = st1]
                 /\ result' = [result EXCEPT ![c] =
                        CASE cls = "transport" -> Err("transport")
                          [] cls = "ok" -> Nil
                          [] OTHER -> StatusErr("status", o.status, o.body)]
                 /\ tok' = [tok EXCEPT ![c] = EmptyToken]
                 /\ UNCHANGED herd
    /\ UNCHANGED <<urlOK, storeCfg, httpClient, path, store, token, writer, readers, tryAuth,
                   sess, loginResp, ctor>>

\* ------------------------------------------------------------- specification
Next ==
    \/ NewClientWithConfig
    \/ \E p \in Procs : authenticateLogin(p)
    \/ \E p \in Procs : loginDo(p)
    \/ \E p \in Procs : authenticateResp(p)
    \/ \E p \in Procs : authenticateSet(p)
    \/ \E p \in Procs : authenticateReturn(p)
    \/ \E c \in Callers : sendMessage(c)
    \/ \E c \in Callers : getTokenRLock(c)
    \/ \E c \in Callers : getTokenReturn(c)
    \/ \E c \in Callers : doRequestDo(c)
    \/ \E c \in Callers : doRequestResp(c)

Spec == Init /\ [][Next]_vars

\* the client of any Config, with or without HttpClient
SpecTransport == InitTransport /\ [][Next]_vars

\* ------------------------------------------- a server that issues new tokens
\* the order in which the server issues its tokens
Rank(t) == CASE t = EmptyToken -> 0 [] t = "t1" -> 1 [] t = "t2" -> 2

\* the outcomes of a login request when every session the server returns
\* carries a token issued after all tokens issued before; the client's token,
\* loaded from the store or installed by the last login, is the last one issued
FreshLoginOutcomes ==
    {o \in LoginOutcomes :
        (~o.transport /\ o.status < ErrorStatus /\ o.decodes)
            => Rank(o.sess.AccessToken) > Rank(token)}

\* line 174 with such a server
loginDoFresh(p) ==
    /\ pc[p] = "au_wait"
    /\ \E o \in FreshLoginOutcomes : loginResp' = o
    /\ pc' = [pc EXCEPT ![p] = "au_resp"]
    /\ UNCHANGED <<urlOK, storeCfg, httpClient, path, store, token, writer, readers, tok,
                   tryAuth, sess, result, call, ctor, herd>>

NextFresh ==
    \/ NewClientWithConfig
    \/ \E p \in Procs : authenticateLogin(p)
    \/ \E p \in Procs : loginDoFresh(p)
    \/ \E p \in Procs : authenticateResp(p)
    \/ \E p \in Procs : authenticateSet(p)
    \/ \E p \in Procs : authenticateReturn(p)
    \/ \E c \in Callers : sendMessage(c)
    \/ \E c \in Callers : getTokenRLock(c)
    \/ \E c \in Callers : getTokenReturn(c)
    \/ \E c \in Callers : doRequestDo(c)
    \/ \E c \in Callers : doRequestResp(c)

SpecFresh == Init /\ [][NextFresh]_vars

\* ------------------------------------------------------------------ progress
\* the steps of process p once its operation has been invoked
ProcStep(p) ==
    \/ authenticateLogin(p)
    \/ loginDo(p)
    \/ authenticateResp(p)
    \/ authenticateSet(p)
    \/ authenticateReturn(p)
    \/ (p \in Callers /\ (\/ getTokenRLock(p)
                           \/ getTokenReturn(p)
                           \/ doRequestDo(p)
                           \/ doRequestResp(p)))

\* every goroutine that can take a step eventually takes one, and every HTTP
\* call and every SessionStorage call returns; callers need not start a call
SpecLive ==
    /\ Spec
    /\ WF_vars(NewClientWithConfig)
    /\ \A p \in Procs : WF_vars(ProcStep(p))

\* ------------------------------------------------------------------- typing
TypeOK ==
    /\ token \in Tokens
    /\ store.AccessToken \in Tokens
    /\ writer \in Procs \cup {None}
    /\ readers \subseteq Callers
    /\ \A p \in Procs : tok[p] \in Tokens
    /\ \A c \in Callers : call[c].reqs <= 2

\* ------------------------------------------------------------------- claims
HerdSame == herd.first /= NoToken /\ herd.prevs = {herd.first}
HerdDone == InAuth /= {} /\ \A p \in InAuth : pc[p] = "au_ret"
AllIdle == \A c \in Callers : pc[c] = "idle"
CtorReturned == pc[Ctor] \in {"nc_ok", "nc_fail"}
EmptyStored == ctor.got \in {"none", EmptyToken}

\* C1 as stated: when the invocations of authenticate in progress together all
\* passed the same prevToken, the token the first of them found under the lock,
\* then once all of them have finished exactly one login request was sent and
\* the token is the one that login produced.
C1_OneLoginAlways ==
    (urlOK /\ HerdSame /\ HerdDone /\ herd.size >= 2)
        => (herd.logins = 1 /\ token = herd.produced)

\* C1 amended: among invocations of authenticate in progress together that all
\* passed the same stale prevToken, a further login request is sent only after
\* one that left the token equal to prevToken; once the token differs from
\* prevToken it is the token the one effective login produced, and no login
\* request follows.
C1_OneEffectiveLogin ==
    HerdSame =>
        /\ herd.logins <= herd.kept + 1
        /\ (token /= herd.first =>
                token = herd.produced /\ herd.logins = herd.kept + 1)

C1_Witness ==
    /\ HerdSame /\ HerdDone /\ herd.size >= 2
    /\ herd.logins = 1 /\ herd.kept = 0
    /\ token = herd.produced /\ token /= herd.first

\* the retry of caller c has been answered: call[c].last is its second response
RetryAnswered(c) == call[c].reqs = 2 /\ pc[c] /= "dr_wait"

\* C2: a call whose first attempt was answered 401 and whose retry was answered
\* with a status below 400 returns success, after exactly one invocation of
\* authenticate.
C2_RetrySucceeds ==
    \A c \in Callers :
        (/\ RetryAnswered(c)
         /\ call[c].st1 = StatusUnauthorized
         /\ ~call[c].last.transport
         /\ call[c].last.status < ErrorStatus)
            => (pc[c] = "done" /\ result[c] = Nil /\ call[c].auths = 1)

C2_Witness ==
    \E c \in Callers :
        /\ pc[c] = "done" /\ result[c] = Nil
        /\ call[c].reqs = 2 /\ call[c].st1 = StatusUnauthorized
        /\ call[c].last.status = 200 /\ call[c].auths = 1

\* C3: a call answered 401 on the first attempt and 401 on the retry fails with
\* the status and body of the second response; no call sends a third request or
\* invokes authenticate a second time.
C3_SecondUnauthorizedIsFinal ==
    \A c \in Callers :
        /\ call[c].reqs <= 2
        /\ call[c].auths <= 1
        /\ (/\ RetryAnswered(c)
            /\ call[c].st1 = StatusUnauthorized
            /\ ~call[c].last.transport
            /\ call[c].last.status = StatusUnauthorized)
               => (/\ pc[c] = "done"
                   /\ result[c] = StatusErr("status", StatusUnauthorized, call[c].last.body)
                   /\ call[c].last.body \in Bodies)

C3_Witness ==
    \E c \in Callers :
        /\ pc[c] = "done"
        /\ call[c].reqs = 2 /\ call[c].auths = 1
        /\ call[c].st1 = StatusUnauthorized
        /\ result[c] = StatusErr("status", StatusUnauthorized, "b2")

\* C4: at most one login request is out at a time, and from the sending of the
\* login request until authenticate returns the sender holds the exclusive lock.
C4_OneLoginInFlight ==
    /\ Cardinality({p \in Procs : pc[p] \in {"au_wait", "au_resp"}}) <= 1
    /\ \A p \in Procs :
          pc[p] \in {"au_wait", "au_resp", "au_set", "au_ret"} => writer = p

C4_Witness ==
    \E p, q \in Callers :
        /\ p /= q
        /\ pc[p] = "au_wait" /\ writer = p
        /\ pc[q] = "au_lock" /\ tok[q] = token

\* C5 as stated: with a Session Store configured and no authenticate call in
\* its critical section, the client's token is the access token the store holds.
C5_TokenMatchesStore ==
    (storeCfg /\ pc[Ctor] = "nc_ok" /\ writer = None)
        => token = store.AccessToken

\* C6 as stated: a construction that found no stored token sends exactly one
\* login request before it returns, and when that login succeeds it returns a
\* client whose token is the token of the login response.
C6_EagerLoginAlwaysReturnsClient ==
    (CtorReturned /\ EmptyStored) =>
        /\ (urlOK => ctor.logins = 1)
        /\ (ctor.installed /= NoToken =>
                pc[Ctor] = "nc_ok" /\ (AllIdle => token = ctor.installed))

\* C6 amended: a construction that found no stored token and can build the
\* login request sends exactly one login request before it returns; when that
\* login succeeds and the Session Store, if any, accepts the session, it returns
\* a client whose token is the token of the login response; when the store
\* rejects the session it returns no client.
C6_EagerLogin ==
    (CtorReturned /\ EmptyStored) =>
        /\ ctor.logins = IF urlOK THEN 1 ELSE 0
        /\ ((ctor.installed /= NoToken /\ result[Ctor] /= Err("storage_set")) =>
                pc[Ctor] = "nc_ok" /\ (AllIdle => token = ctor.installed))
        /\ (result[Ctor] = Err("storage_set") => pc[Ctor] = "nc_fail")

C6_Witness ==
    /\ pc[Ctor] = "nc_ok" /\ AllIdle
    /\ ctor.got = EmptyToken /\ ctor.logins = 1
    /\ ctor.installed = "t2" /\ token = "t2" /\ store = Session("t2")

\* C7: a construction whose Session Store returns a non-empty access token
\* sends no login request, and returns a client whose token is the stored one.
C7_StoredTokenSkipsLogin ==
    (ctor.got \in Tokens \ {EmptyToken}) =>
        /\ pc[Ctor] = "nc_ok"
        /\ ctor.logins = 0
        /\ result[Ctor] = Nil
        /\ (AllIdle => token = ctor.got)

C7_Witness ==
    /\ pc[Ctor] = "nc_ok" /\ AllIdle
    /\ ctor.got = "t1" /\ token = "t1" /\ ctor.logins = 0

\* a step in which process p leaves position at
Leaves(p, at) == pc[p] = at /\ pc'[p] /= at

\* C8: when the login request is answered with a status >= 400, authenticate
\* returns an error with that status and body, leaves the token and the Session
\* Store as they are, and releases the exclusive lock when it returns.
C8_RejectedLogin ==
    /\ [][\A p \in Procs :
            (/\ Leaves(p, "au_resp")
             /\ ~loginResp.transport
             /\ loginResp.status >= ErrorStatus)
                => (/\ pc'[p] = "au_ret"
                    /\ result'[p] = StatusErr("auth_status", loginResp.status, loginResp.body)
                    /\ token' = token
                    /\ store' = store)]_vars
    /\ [][\A p \in Procs :
            (Leaves(p, "au_ret") /\ result[p].kind = "auth_status")
                => (/\ writer = p /\ writer' = None
                    /\ pc'[p] \in {"done", "nc_fail"}
                    /\ result'[p] = result[p]
                    /\ token' = token
                    /\ store' = store)]_vars

C8_Witness ==
    \E c \in Callers :
        /\ pc[c] = "done" /\ writer = None
        /\ result[c] = StatusErr("auth_status", StatusUnauthorized, "b2")
        /\ call[c].reqs = 1

\* C9: when the HTTP call of an attempt fails at transport level, doRequest
\* returns that failure at once, with either value of tryAuth: the step neither
\* invokes authenticate nor sends a request nor changes the token, and the call
\* is finished.
C9_TransportFailureIsFinal ==
    /\ [](\A c \in Callers :
            call[c].last.transport =>
                (/\ pc[c] = "done"
                 /\ result[c] = Err("transport")
                 /\ call[c].auths = call[c].reqs - 1))
    /\ [][\A c \in Callers :
            (Leaves(c, "dr_wait") /\ call'[c].last.transport)
                => (/\ call'[c].auths = call[c].auths
                    /\ call'[c].reqs = call[c].reqs
                    /\ token' = token
                    /\ herd' = herd)]_vars

C9_Witness ==
    \E c \in Callers :
        /\ pc[c] = "done" /\ result[c] = Err("transport")
        /\ tryAuth[c] /\ call[c].reqs = 1 /\ call[c].auths = 0

\* C10: an attempt answered with a status >= 400 other than 401, or with 401
\* when tryAuth is false, makes doRequest return an error with that status and
\* body; authenticate is not invoked for it and the request is not sent again.
C10_FailureStatusIsFinal ==
    \A c \in Callers :
        (/\ ~call[c].last.transport
         /\ call[c].last.status >= ErrorStatus
         /\ (call[c].last.status /= StatusUnauthorized \/ RetryAnswered(c)))
            => (/\ pc[c] = "done"
                /\ result[c] = StatusErr("status", call[c].last.status, call[c].last.body)
                /\ call[c].last.body \in Bodies
                /\ call[c].auths = call[c].reqs - 1)

C10_Witness ==
    \E c \in Callers :
        /\ pc[c] = "done" /\ tryAuth[c]
        /\ call[c].reqs = 1 /\ call[c].auths = 0
        /\ result[c] = StatusErr("status", ErrorStatus, "b1")

\* C11: when the Set of a successful login fails, authenticate returns the
\* storage error; the doRequest that invoked it after a 401 returns that error
\* without sending the request again, and a construction returns no client.
C11_StoreFailureSurfaced ==
    /\ [][\A p \in Procs :
            (Leaves(p, "au_set") /\ store' /= sess[p])
                => (pc'[p] = "au_ret" /\ result'[p] = Err("storage_set"))]_vars
    /\ [][\A p \in Procs :
            (Leaves(p, "au_ret") /\ result[p] = Err("storage_set"))
                => (/\ pc'[p] = IF p = Ctor THEN "nc_fail" ELSE "done"
                    /\ result'[p] = result[p]
                    /\ call' = call)]_vars
    /\ [](\A c \in Callers :
            result[c] = Err("storage_set")
                => (/\ pc[c] \in {"au_ret", "done"}
                    /\ call[c].reqs = 1 /\ call[c].auths = 1
                    /\ call[c].st1 = StatusUnauthorized))
    /\ [](result[Ctor] = Err("storage_set")
            => (pc[Ctor] \in {"au_ret", "nc_fail"} /\ AllIdle))

C11_Witness ==
    \E c \in Callers :
        /\ pc[c] = "done" /\ result[c] = Err("storage_set")
        /\ call[c].reqs = 1 /\ call[c].auths = 1
        /\ token /= store.AccessToken

\* the errors authenticate returns when the login itself fails
LoginErrors == {"auth_create", "auth_transport", "auth_status", "auth_decode"}

\* C12: a construction whose Get fails returns that error and no client, and
\* sends no login request; a construction whose eager login fails returns the
\* error of the login and no client.
C12_FailedConstruction ==
    /\ ctor.got = "failed" =>
            /\ pc[Ctor] = "nc_fail"
            /\ result[Ctor] = Err("storage_get")
            /\ ctor.logins = 0 /\ herd = NewHerd
            /\ token = EmptyToken
    /\ (pc[Ctor] \notin AuthPcs /\ result[Ctor].kind \in LoginErrors) =>
            /\ pc[Ctor] = "nc_fail"
            /\ ctor.logins = IF result[Ctor].kind = "auth_create" THEN 0 ELSE 1
            /\ ctor.installed = NoToken
    /\ pc[Ctor] = "nc_fail" => (AllIdle /\ result[Ctor] /= Nil)

C12_Witness ==
    /\ storeCfg /\ ctor.got = "failed"
    /\ pc[Ctor] = "nc_fail" /\ result[Ctor] = Err("storage_get")

\* the HTTP clients that have sent a login request or an attempt of a call
UsedClients == herd.via \cup ctor.via \cup UNION {call[c].via : c \in Callers}

\* C13 as stated: when the Config supplies an HttpClient, every HTTP call of the
\* client (login, message send, upload) is sent by that HttpClient.
C13_ConfiguredTransport ==
    httpClient = "Config.HttpClient" => UsedClients \subseteq {"Config.HttpClient"}

\* C14: a logical call sends at most two requests and invokes authenticate at
\* most once, in every interleaving; when authenticate, invoked after a 401 on
\* the first attempt, returns without error, whether it logged in or skipped the
\* login, the request is sent exactly once more, with tryAuth = false.
C14_OneRetryCycle ==
    /\ [](\A c \in Callers :
            /\ call[c].reqs <= 2 /\ call[c].auths <= 1
            /\ (call[c].auths = 1 => call[c].st1 = StatusUnauthorized)
            /\ (call[c].reqs = 2 => (call[c].auths = 1 /\ ~tryAuth[c]))
            /\ ((call[c].auths = 1 /\ pc[c] \in {"gt_rlock", "gt_read", "dr_send"})
                    => (call[c].reqs = 1 /\ ~tryAuth[c]))
            /\ ((call[c].auths = 1 /\ pc[c] = "dr_wait") => call[c].reqs = 2)
            /\ ((call[c].auths = 1 /\ pc[c] = "done")
                    => call[c].reqs = IF result[c].kind \in LoginErrors \cup {"storage_set"}
                                      THEN 1 ELSE 2))
    /\ [][\A c \in Callers :
            (Leaves(c, "au_ret") /\ result[c] = Nil)
                => (/\ pc'[c] = "gt_rlock"
                    /\ ~tryAuth'[c]
                    /\ call[c].reqs = 1 /\ call' = call)]_vars

C14_Witness ==
    \E c, d \in Callers :
        /\ c /= d
        /\ call[d].reqs = 2 /\ call[d].auths = 1
        /\ pc[c] = "au_ret" /\ writer = c /\ result[c] = Nil
        /\ call[c].reqs = 1 /\ call[c].auths = 1
        /\ herd.size = 2 /\ herd.logins = 1 /\ herd.kept = 0
        /\ token = herd.produced /\ token /= tok[c]

\* C15: while an authenticate call holds the exclusive lock, its login request
\* included, no caller is inside getToken's read section and none completes a
\* read of the token; a request whose token was read before the lock was taken
\* can be sent, and a request that is out can be answered, at any time.
C15_LoginBlocksReadsOnly ==
    /\ [](writer /= None =>
            (readers = {} /\ \A c \in Callers : pc[c] /= "gt_read"))
    /\ [][writer /= None =>
            \A c \in Callers :
                /\ ~Leaves(c, "gt_rlock")
                /\ ~(pc[c] /= "dr_send" /\ pc'[c] = "dr_send")]_vars
    /\ [](\A c \in Callers :
            /\ pc[c] = "dr_send" => ENABLED doRequestDo(c)
            /\ pc[c] = "dr_wait" => ENABLED doRequestResp(c))

C15_Witness ==
    \E p, c \in Callers :
        /\ p /= c
        /\ writer = p /\ pc[p] = "au_wait"
        /\ pc[c] = "dr_send" /\ call[c].reqs = 0 /\ tok[c] = token

\* C16: Set is invoked only by an authenticate call that holds the exclusive
\* lock, so at most one Set is in progress at a time, and each Set is given the
\* session whose token is the client's current token, the last one installed;
\* Get is invoked only by the construction, before any caller has started.
C16_StoreWritesSerialized ==
    /\ [](/\ Cardinality({p \in Procs : pc[p] = "au_set"}) <= 1
          /\ \A p \in Procs :
                pc[p] = "au_set" => (writer = p /\ sess[p].AccessToken = token))
    /\ [][store' /= store =>
            \E p \in Procs :
                /\ Leaves(p, "au_set") /\ writer = p
                /\ store' = sess[p] /\ store'.AccessToken = token]_vars
    /\ [][ctor'.got \notin {ctor.got, PastCtor.got} =>
            (pc[Ctor] = "nc_start" /\ AllIdle /\ writer = None)]_vars

C16_Witness ==
    \E p, q \in Callers :
        /\ pc[p] = "au_set" /\ writer = p
        /\ pc[q] = "au_lock"
        /\ sess[p].AccessToken = token /\ store.AccessToken /= token

\* C17: every attempt of a logical send carries the method, path and payload
\* its sendMessage call built, so the retry carries the event identifier of the
\* first attempt; the calls of two callers carry different event identifiers.
C17_SameRequestOnRetry ==
    \A c \in Callers :
        /\ Len(call[c].paths) = call[c].reqs
        /\ \A i \in 1..Len(call[c].paths) :
              call[c].paths[i] = path[c] /\ path[c] /= NoPath
        /\ \A d \in Callers \ {c} :
              \A i \in 1..Len(call[c].paths), j \in 1..Len(call[d].paths) :
                  call[c].paths[i].path /= call[d].paths[j].path

C17_Witness ==
    \E c, d \in Callers :
        /\ c /= d
        /\ call[c].reqs = 2 /\ call[c].paths[1] = call[c].paths[2]
        /\ call[d].reqs = 2 /\ call[d].paths[1].path /= call[c].paths[1].path

\* C18: with a server whose every successful login returns a token not issued
\* before, the token the retry of a call reads, and sends as its Bearer token,
\* differs from the token of the first attempt, which the call still holds as
\* the prevToken it passed to authenticate, in every interleaving.
C18_RetryTokenDiffers ==
    [][\A c \in Callers :
          (Leaves(c, "gt_read") /\ call[c].reqs = 1)
              => (tok'[c] /= tok[c] /\ tok'[c] = token /\ pc'[c] = "dr_send")]_vars

C18_Witness ==
    \E c, d \in Callers :
        /\ c /= d
        /\ pc[c] = "dr_wait" /\ call[c].reqs = 2 /\ tok[c] = "t2" /\ token = "t2"
        /\ pc[d] = "au_lock" /\ tok[d] = "t1"

\* the lock is held by nobody
LockFree == writer = None /\ readers = {}

\* C19: no process waits for the lock while it holds it, as reader or as
\* writer; when every HTTP call and every store call returns, the construction
\* returns, every call a caller has started returns, and the lock ends up free.
C19_NoDeadlock ==
    /\ [](\A p \in Procs :
            pc[p] \in {"au_lock", "gt_rlock"} => (writer /= p /\ p \notin readers))
    /\ <>(pc[Ctor] \in {"nc_ok", "nc_fail"})
    /\ \A c \in Callers : (pc[c] /= "idle") ~> (pc[c] = "done")
    /\ <>[]LockFree

C19_Witness ==
    /\ \A c \in Callers : pc[c] = "done" /\ call[c].reqs = 2
    /\ LockFree

\* C20: the token changes only when NewClientWithConfig loads it from the
\* Session Store, or inside authenticate, under the exclusive lock, on a login
\* response with a status below 400 whose body decodes, to the access token of
\* that response; every other step leaves it as it is.  Hence the token of a
\* client that construction has returned is the one loaded from the store or
\* the access token of a successful login response.
C20_TokenChangesOnlyOnLogin ==
    /\ [][token' /= token =>
            \/ /\ pc[Ctor] = "nc_start" /\ storeCfg /\ AllIdle
               /\ token' = store.AccessToken
            \/ \E p \in Procs :
                  /\ Leaves(p, "au_resp") /\ writer = p /\ writer' = p
                  /\ tok[p] = token
                  /\ ~loginResp.transport
                  /\ loginResp.status < ErrorStatus
                  /\ loginResp.decodes
                  /\ token' = loginResp.sess.AccessToken]_vars
    /\ []((pc[Ctor] = "nc_ok" /\ AllIdle) =>
            token = IF ctor.installed /= NoToken THEN ctor.installed ELSE ctor.got)

C20_Witness ==
    \E c \in Callers :
        /\ pc[c] = "au_ret" /\ writer = c /\ result[c] = Nil
        /\ herd.size = 1 /\ herd.logins = 1
        /\ token = herd.produced /\ token /= tok[c]

====
